---------------------------- MODULE Spec2Model ----------------------------
(***************************************************************************)
(* Model of the I2C command listener of RTL_CommandBus: the wire records   *)
(* of CommandProtocol.h, and the CommandListener state machine             *)
(* (Begin, Poll, OnCommand, DefaultCommandHandler, OnCommandReceived,      *)
(* GetResponse, SendResponse, PostResponse) of CommandListener.h /         *)
(* CommandListener.cpp, and the transfer functions of RTL_I2C.h (I2C_Read, *)
(* I2C_Write, I2C_SendMessage, I2C_SendCommand).                           *)
(*                                                                         *)
(* A record is the sequence of its bytes, in field order; a buffer is a    *)
(* sequence of BufferSize bytes.  The listener object is modelled with its *)
(* members in declaration order, so that a memcpy whose length exceeds the *)
(* destination array has the outcomes the build can produce.               *)
(***************************************************************************)
EXTENDS Naturals, Sequences, FiniteSets

(***************************************************************************)
(* Protocol constants (CommandProtocol.h)                                  *)
(***************************************************************************)
CMD_QUERY_ID == 1
CMD_QUERY_RESPONSE == 2
CMD_EXECUTE == 5
CMD_ECHO == 6

CMD_RESPONSE_OK == 0
CMD_RESPONSE_DEFERRED == 1
CMD_RESPONSE_NOTREADY == 2
CMD_RESPONSE_BUSY == 3
CMD_RESPONSE_ERROR == 4
CMD_RESPONSE_UNKNOWN == 5

\* sizeof(CommandBuffer) = sizeof(ResponseBuffer)
BufferSize == 32

\* sizeof(CommandEcho::EchoData)
EchoDataSize == 27

\* sizeof(CommandExecute::CommandLine)
CommandLineSize == 27

\* the number of elements of _deferredResponseList
DEFERRED_RESPONSE_LIST_SIZE == 5

(***************************************************************************)
(* Bounds of the model                                                     *)
(***************************************************************************)
\* length of the text carried by the echo command that is received
MaxText == 2

\* the largest number of bytes by which a received frame's declared Length
\* exceeds BufferSize
MaxOverrun == 35

Min(a, b) == IF a < b THEN a ELSE b

Fill(n, b) == [i \in 1..n |-> b]

(***************************************************************************)
(* Message codec.  A record is the sequence of the bytes of its fields, so *)
(* the size of its type is the length of the sequence.  A base class's     *)
(* constructor runs before the body of the derived constructor.            *)
(***************************************************************************)
\* Length = sizeof(*this)
StampLength(this) == [this EXCEPT ![1] = Len(this)]

\* the field as it would be if strncpy were given the whole size of the field
StrncpyWholeField(text, size) ==
    [i \in 1..size |-> IF i <= Len(text) THEN text[i] ELSE 0]

\* memset(field, 0, size); strncpy(field, text, size - 1)
Strncpy(text, size) ==
    [i \in 1..size |-> IF i <= Len(text) /\ i <= size - 1 THEN text[i] ELSE 0]

CommandMessage(commandCode) == StampLength(<<0, commandCode>>)

CommandExecute(requestorAddr, commandLine) ==
    StampLength(CommandMessage(CMD_EXECUTE) \o <<requestorAddr>>
                \o Strncpy(commandLine, CommandLineSize))

\* CommandEcho as it would be if its constructor did not set Length
CommandEchoKeepsBaseLength(echoData) ==
    CommandMessage(CMD_ECHO) \o Strncpy(echoData, EchoDataSize)

CommandEcho(echoData) ==
    StampLength(CommandMessage(CMD_ECHO) \o Strncpy(echoData, EchoDataSize))

\* OriginalCommand is not set by the constructor: it is whatever the storage
\* held, or what the caller stores in it afterwards.
CommandQueryResponseReady(responseID, originalCommand) ==
    StampLength(CommandMessage(CMD_QUERY_RESPONSE)
                \o <<responseID, originalCommand>>)

CommandResponse(responseCode, responseID) ==
    StampLength(<<0, responseCode, responseID>>)

CommandResponseQueryID(id) ==
    StampLength(CommandResponse(CMD_RESPONSE_OK, 0) \o <<id>>)

CommandResponseDeferred(responseID) ==
    StampLength(CommandResponse(CMD_RESPONSE_DEFERRED, responseID))

\* the function-local static of GetResponse
responseNotReady == CommandResponse(CMD_RESPONSE_NOTREADY, 0)

NULL == <<>>

(***************************************************************************)
(* The listener object as memory.  Members in declaration order:           *)
(*   CommandBuffer[32], ResponseBuffer[32], CommandPending,                *)
(*   ResponsePending, _myDeviceID                                          *)
(* Offsets are 1-based from the first byte of CommandBuffer.               *)
(***************************************************************************)
OffCommandBuffer == 1
OffResponseBuffer == OffCommandBuffer + BufferSize
OffCommandPending == OffResponseBuffer + BufferSize
OffResponsePending == OffCommandPending + 1
OffDeviceID == OffResponsePending + 1

BoolByte(b) == IF b THEN 1 ELSE 0

Image(cb, rb, cp, rp, id) == cb \o rb \o <<BoolByte(cp), BoolByte(rp), id>>

\* Where the bytes that a copy writes past the end of its destination array
\* land: on the members that follow it ("adjacent"), or on storage that
\* belongs to none of the members ("elsewhere").
Layouts == {"adjacent", "elsewhere"}

\* the outcomes of a copy of n bytes to an array of capacity cap: they differ
\* only when the copy overruns the array
LayoutsOf(cap, n) == IF n > cap THEN Layouts ELSE {"adjacent"}

\* memcpy(dest, src, n) where dest is the array of capacity cap at offset off
Memcpy(mem, off, cap, src, n, layout) ==
    LET m == IF layout = "adjacent" THEN n ELSE Min(n, cap)
    IN  [i \in 1..Len(mem) |->
            IF i >= off /\ i < off + m THEN src[i - off + 1] ELSE mem[i]]

\* the number of bytes memcpy writes outside a destination of capacity cap
Overrun(cap, n) == IF n > cap THEN n - cap ELSE 0

\* ResponseItem() : InUse(false), pResponse(NULL)
ResponseItem == [InUse |-> FALSE, pResponse |-> NULL]

(***************************************************************************)
(* State                                                                   *)
(***************************************************************************)
VARIABLES
    CommandBuffer,      \* byte CommandBuffer[32]
    ResponseBuffer,     \* byte ResponseBuffer[32]
    CommandPending,     \* bool CommandPending
    ResponsePending,    \* bool ResponsePending
    myDeviceID,         \* byte _myDeviceID
    phase,              \* "constructed" until Begin has run, then "running"
    pc,                 \* position of the cooperative context inside Poll
    twiRx,              \* bytes waiting in the transport's receive buffer
    \* ---- history of the calls, for stating the properties ----
    lastOp,             \* the operation that made the last step, and of it:
    lastFrame,          \*   the record the call was given
    lastExpected,       \*   what IsResponseExpected answered for that frame
    overrun,            \*   bytes its copy wrote outside the destination
    ret,                \*   the response GetResponse returned
    retSrc,             \*   "static" (responseNotReady) or "buffer"
    handlerArg,         \*   the command OnCommand was called with
    postedBy,           \* who posted last since the last GetResponse / Begin
    lastPosted,         \* the response that PostResponse call was given
    postCount,          \* PostResponse calls since then: 0, 1, 2 for more
    firstRecv,          \* first frame received since the last Poll returned
    recvCount,          \* frames received since then: 0, 1, 2 for more
    pollCalls,          \* handler calls made by the Poll in progress / last
    constructedID,      \* the deviceID the constructor was given
    awaiting,           \* the accepted command not yet dispatched, or NULL
    \* ---- the deferred responses ----
    deferredResponseList,   \* ResponseItem _deferredResponseList[5]
    registered,         \* responses given to PostDeferredResponse whose
                        \*   ResponseID no query has carried since
    \* ---- typed writes and reads of records ----
    value,              \* the record constructed last
    valueType,          \* the name of its type
    twiTx,              \* bytes written to the transport, not yet sent
    received,           \* the object of that type that I2C_Read fills
    moved,              \* the count the last I2C_Write / I2C_Read returned
    textArg,            \* the text the last constructor was given, if any
    \* ---- PostResponse in the steps of its critical section ----
    interruptsOn,       \* the processor's interrupt-enable flag
    pPosting,           \* the response PostResponse is copying, NULL if none
    bytesCopied,        \* bytes of it that memcpy has written so far
    postReturn,         \* where the cooperative context continues afterwards
    \* ---- OnCommandReceived(twi, messageLength) in the steps of its loops ----
    isrPc,              \* position of the interrupt handler, "none" outside
    readSize,           \* the sizeDest I2C_Read was called with
    bytesRead,          \* bytes I2C_Read has stored so far
    \* ---- the device that sends the commands ----
    master              \* what its last I2C_SendMessage / I2C_SendCommand did

object == <<CommandBuffer, ResponseBuffer, CommandPending, ResponsePending,
            myDeviceID>>

\* what describes the last step alone
stepHist == <<lastFrame, lastExpected, overrun, ret, retSrc, handlerArg>>

postHist == <<postedBy, lastPosted, postCount>>

recvHist == <<firstRecv, recvCount>>

\* the progress of a PostResponse call
critical == <<interruptsOn, pPosting, bytesCopied, postReturn>>

\* what most operations leave alone
registry == <<deferredResponseList, registered>>

\* what the operations on the two buffers leave alone
codec == <<value, valueType, twiTx, received, moved, textArg>>

\* the progress of an OnCommandReceived(twi, messageLength) call
receiving == <<isrPc, readSize, bytesRead>>

\* what the listener leaves alone
bus == <<codec, master>>

other == <<registry, bus, receiving>>

aux == <<critical, awaiting, other>>

vars == <<object, phase, pc, twiRx, lastOp, stepHist, postHist, recvHist,
          pollCalls, constructedID, aux>>

\* the description of a step of operation op
Step(op, frame, expected, over, r, src, arg) ==
    /\ lastOp' = op
    /\ lastFrame' = frame
    /\ lastExpected' = expected
    /\ overrun' = over
    /\ ret' = r
    /\ retSrc' = src
    /\ handlerArg' = arg

CurImage ==
    Image(CommandBuffer, ResponseBuffer, CommandPending, ResponsePending,
          myDeviceID)

\* the members of the object, read back from its memory
Store(mem) ==
    /\ CommandBuffer' = SubSeq(mem, OffCommandBuffer, OffResponseBuffer - 1)
    /\ ResponseBuffer' = SubSeq(mem, OffResponseBuffer, OffCommandPending - 1)
    /\ CommandPending' = (mem[OffCommandPending] # 0)
    /\ ResponsePending' = (mem[OffResponsePending] # 0)
    /\ myDeviceID' = mem[OffDeviceID]

\* the record a pointer to a buffer designates: its first Length bytes
RecordAt(buf) == SubSeq(buf, 1, Min(buf[1], Len(buf)))

(***************************************************************************)
(* Inputs                                                                  *)
(***************************************************************************)
DeviceIDs == {0, 7}

\* contents of storage the constructor does not initialise
Garbage == {0, 255}

Text == [i \in 1..MaxText |-> 103 + i]

\* a frame whose Length byte declares n bytes, n > BufferSize
OversizeFrame(n, b) == <<n, CMD_ECHO>> \o Fill(n - 2, b)

OversizeFrames ==
    {OversizeFrame(BufferSize + 1, 1)}
    \cup {OversizeFrame(BufferSize + MaxOverrun, b) : b \in {0, 1}}

Frames ==
    {CommandMessage(CMD_QUERY_ID), CommandEcho(Text)}
    \cup OversizeFrames

\* what one reception leaves in the transport's receive buffer, which holds
\* BufferSize bytes: a frame, or nothing
TwiReceptions == {f \in Frames : Len(f) <= BufferSize} \cup {<<>>}

\* a response of a type a device derives from CommandResponse, whose
\* constructor stamps Length with its size n, n > BufferSize
OversizeResponse(n, b) == <<n, CMD_RESPONSE_OK, 0>> \o Fill(n - 3, b)

OversizeResponses == {OversizeResponse(BufferSize + 1, b) : b \in {0, 1}}

\* the size of the buffer the sending device has for a response
ResponseCapacity == Len(CommandResponseQueryID(0))

\* the responses of the protocol's own types that are posted
Responses == {CommandResponseDeferred(3), CommandResponseQueryID(9)}

(***************************************************************************)
(* CommandListener(deviceID): only _myDeviceID is initialised.             *)
(***************************************************************************)
Init ==
    /\ \E g \in Garbage :
          /\ CommandBuffer = Fill(BufferSize, g)
          /\ ResponseBuffer = Fill(BufferSize, g)
    /\ CommandPending \in BOOLEAN
    /\ ResponsePending \in BOOLEAN
    /\ myDeviceID \in DeviceIDs
    /\ constructedID = myDeviceID
    /\ phase = "constructed"
    /\ pc = "idle"
    /\ twiRx = <<>>
    /\ lastOp = "Construct"
    /\ lastFrame = NULL
    /\ lastExpected = FALSE
    /\ overrun = 0
    /\ ret = NULL
    /\ retSrc = "none"
    /\ handlerArg = NULL
    /\ postedBy = "none"
    /\ lastPosted = NULL
    /\ postCount = 0
    /\ firstRecv = NULL
    /\ recvCount = 0
    /\ pollCalls = 0
    /\ awaiting = NULL
    /\ deferredResponseList = [i \in 1..DEFERRED_RESPONSE_LIST_SIZE |->
                                 ResponseItem]
    /\ registered = {}
    /\ value = NULL
    /\ valueType = "none"
    /\ twiTx = <<>>
    /\ received = NULL
    /\ moved = 0
    /\ textArg = NULL
    /\ interruptsOn = TRUE
    /\ pPosting = NULL
    /\ bytesCopied = 0
    /\ postReturn = "idle"
    /\ isrPc = "none"
    /\ readSize = 0
    /\ bytesRead = 0
    /\ master = [transmissions |-> <<>>, requests |-> <<>>,
                 isRequest |-> FALSE, endStatus |-> 0, bytesRead |-> 0,
                 response |-> Fill(ResponseCapacity, 0), statusCode |-> 0]

(***************************************************************************)
(* Begin                                                                   *)
(***************************************************************************)
\* what Begin finds pending and drops: of the step Begin, ret is the
\* response and handlerArg the command
Dropped(pending, buffer) == IF pending THEN RecordAt(buffer) ELSE NULL

\* Begin as it would be if it left ResponsePending alone
BeginKeepsResponse ==
    /\ pc = "idle"
    /\ CommandPending' = FALSE
    /\ phase' = "running"
    /\ Step("Begin", NULL, FALSE, 0, Dropped(ResponsePending, ResponseBuffer),
            "none", Dropped(CommandPending, CommandBuffer))
    /\ postedBy' = "none"
    /\ lastPosted' = NULL
    /\ postCount' = 0
    /\ firstRecv' = NULL
    /\ recvCount' = 0
    /\ awaiting' = NULL
    /\ UNCHANGED <<CommandBuffer, ResponseBuffer, ResponsePending, myDeviceID,
                   pc, twiRx, pollCalls, constructedID, critical, other>>

Begin ==
    /\ pc = "idle"
    /\ CommandPending' = FALSE
    /\ ResponsePending' = FALSE
    /\ phase' = "running"
    /\ Step("Begin", NULL, FALSE, 0, Dropped(ResponsePending, ResponseBuffer),
            "none", Dropped(CommandPending, CommandBuffer))
    /\ postedBy' = "none"
    /\ lastPosted' = NULL
    /\ postCount' = 0
    /\ firstRecv' = NULL
    /\ recvCount' = 0
    /\ awaiting' = NULL
    /\ UNCHANGED <<CommandBuffer, ResponseBuffer, myDeviceID, pc, twiRx,
                   pollCalls, constructedID, critical,
                   other>>

(***************************************************************************)
(* PostResponse(pResponse), on the object's memory                         *)
(***************************************************************************)
PostResponseImage(mem, pResponse, layout) ==
    IF pResponse = NULL
    THEN mem
    ELSE [Memcpy(mem, OffResponseBuffer, BufferSize, pResponse, pResponse[1],
                 layout)
            EXCEPT ![OffResponsePending] = 1]

PostResponseOverrun(pResponse) ==
    IF pResponse = NULL THEN 0 ELSE Overrun(BufferSize, pResponse[1])

PostResponseLayouts(pResponse) ==
    IF pResponse = NULL THEN {"adjacent"}
    ELSE LayoutsOf(BufferSize, pResponse[1])

\* who posted what: nothing new when the pointer is NULL
NotePosted(by, pResponse) ==
    /\ postedBy' = IF pResponse = NULL THEN postedBy ELSE by
    /\ lastPosted' = IF pResponse = NULL THEN lastPosted ELSE pResponse
    /\ postCount' = IF pResponse = NULL THEN postCount
                                        ELSE Min(postCount + 1, 2)

\* PostResponse called by the device's own code in the cooperative context
PostResponse(pResponse) ==
    /\ phase = "running"
    /\ pc = "idle"
    /\ \E layout \in PostResponseLayouts(pResponse) :
          Store(PostResponseImage(CurImage, pResponse, layout))
    /\ Step("PostResponse", NULL, FALSE, PostResponseOverrun(pResponse), NULL,
            "none", NULL)
    /\ NotePosted("handler", pResponse)
    /\ UNCHANGED <<phase, pc, twiRx, recvHist, pollCalls, constructedID,
                   aux>>

(***************************************************************************)
(* GetResponse: interrupt context                                          *)
(***************************************************************************)
\* what the returned pointer designates, and which object it points into
GetResponseResult(pending, buffer) ==
    IF pending
    THEN [response |-> RecordAt(buffer), src |-> "buffer"]
    ELSE [response |-> responseNotReady, src |-> "static"]

GetResponse ==
    /\ phase = "running"
    /\ interruptsOn
    /\ LET result == GetResponseResult(ResponsePending, ResponseBuffer)
       IN  Step("GetResponse", NULL, FALSE, 0, result.response, result.src,
                NULL)
    /\ ResponsePending' = IF ResponsePending THEN FALSE ELSE ResponsePending
    /\ postedBy' = "none"
    /\ lastPosted' = NULL
    /\ postCount' = 0
    /\ UNCHANGED <<CommandBuffer, ResponseBuffer, CommandPending, myDeviceID,
                   phase, pc, twiRx, recvHist, pollCalls, constructedID, aux>>

(***************************************************************************)
(* OnCommandReceived(const CommandMessage* pCommand): interrupt context    *)
(***************************************************************************)
\* virtual: false in the base class, any answer in a device's override
IsResponseExpected(pCommand) == BOOLEAN

\* the first frame received since the last Poll returned
NoteReceived(f) ==
    IF pc = "idle"
    THEN /\ firstRecv' = IF recvCount = 0 THEN f ELSE firstRecv
         /\ recvCount' = Min(recvCount + 1, 2)
    ELSE UNCHANGED recvHist

responseBusy == CommandResponse(CMD_RESPONSE_BUSY, 0)

\* RejectImage as it would be if BUSY were posted whether or not a response
\* is expected
RejectImagePostsAlways(mem, expected) ==
    PostResponseImage(mem, responseBusy, "adjacent")

\* a command is already pending: the BUSY response, if one is expected
RejectImage(mem, expected) ==
    IF expected THEN PostResponseImage(mem, responseBusy, "adjacent") ELSE mem

\* no command is pending: CommandPending = true, then the copy
AcceptImage(mem, pCommand, layout) ==
    Memcpy([mem EXCEPT ![OffCommandPending] = 1], OffCommandBuffer,
           BufferSize, pCommand, pCommand[1], layout)

OnCommandReceived(pCommand) ==
    /\ phase = "running"
    /\ interruptsOn
    /\ \E expected \in IsResponseExpected(pCommand),
          layout \in LayoutsOf(BufferSize, pCommand[1]) :
          IF CommandPending
          THEN /\ Step("ReceiveRejected", pCommand, expected, 0, NULL, "none",
                       NULL)
               /\ Store(RejectImage(CurImage, expected))
               /\ NotePosted("listener", IF expected THEN responseBusy
                                                    ELSE NULL)
               /\ UNCHANGED awaiting
          ELSE /\ Step("ReceiveAccepted", pCommand, expected,
                       Overrun(BufferSize, pCommand[1]), NULL, "none", NULL)
               /\ Store(AcceptImage(CurImage, pCommand, layout))
               /\ awaiting' = pCommand
               /\ UNCHANGED postHist
    /\ NoteReceived(pCommand)
    /\ UNCHANGED <<phase, pc, twiRx, pollCalls, constructedID, critical,
                   other>>

(***************************************************************************)
(* I2C_Read(twi, pDest, sizeDest): the number of bytes it moves            *)
(***************************************************************************)
\* I2C_ReadCount as it would be if the loop stopped one byte short of sizeDest
I2C_ReadCountStopsShort(rx, sizeDest) == Min(sizeDest - 1, Len(rx))

I2C_ReadCount(rx, sizeDest) == Min(sizeDest, Len(rx))

(***************************************************************************)
(* OnCommandReceived(TwoWire& twi, int messageLength): interrupt context.  *)
(* The transport calls it with the bytes of one reception in its receive   *)
(* buffer and messageLength their number.                                  *)
(***************************************************************************)
\* CommandPending as it would be if the count I2C_Read returns were ignored
PendingAfterReadAlways(n) == TRUE

\* CommandPending = true; if (I2C_Read(...) == 0) CommandPending = false;
PendingAfterRead(n) == n # 0

OnCommandReceivedTwi(rx, messageLength) ==
    /\ phase = "running"
    /\ interruptsOn
    /\ IF CommandPending
       THEN /\ twiRx' = <<>>
            /\ Step("TwiReceiveFlushed", rx, FALSE, 0, NULL, "none", NULL)
            /\ UNCHANGED <<object, awaiting>>
       ELSE LET n == I2C_ReadCount(rx, messageLength)
            IN  /\ \E layout \in LayoutsOf(BufferSize, n) :
                      Store([Memcpy(CurImage, OffCommandBuffer, BufferSize,
                                    rx, n, layout)
                               EXCEPT ![OffCommandPending] =
                                          BoolByte(PendingAfterRead(n))])
                /\ twiRx' = SubSeq(rx, n + 1, Len(rx))
                /\ awaiting' = IF n = 0 THEN awaiting ELSE SubSeq(rx, 1, n)
                /\ Step(IF n = 0 THEN "TwiReceiveEmpty"
                                 ELSE "TwiReceiveAccepted",
                        rx, FALSE, Overrun(BufferSize, n), NULL, "none", NULL)
    /\ IF rx = <<>> THEN UNCHANGED recvHist ELSE NoteReceived(rx)
    /\ UNCHANGED <<phase, pc, postHist, pollCalls, constructedID, critical,
                   other>>

(***************************************************************************)
(* DefaultCommandHandler / OnCommand, on the object's memory               *)
(***************************************************************************)
\* HandlerResponse as it would be if the handler answered every command code
HandlerResponseAnswersAll(mem) == CommandResponseQueryID(mem[OffDeviceID])

\* the response the handler constructs for the command in CommandBuffer
HandlerResponse(mem) ==
    IF mem[OffCommandBuffer + 1] = CMD_QUERY_ID
    THEN CommandResponseQueryID(mem[OffDeviceID])
    ELSE NULL

DefaultCommandHandler(mem, layout) ==
    PostResponseImage(mem, HandlerResponse(mem), layout)

OnCommand(mem, layout) == DefaultCommandHandler(mem, layout)

(***************************************************************************)
(* Poll, in the steps an interrupt can separate: the test of               *)
(* CommandPending, the call of the handler, the clearing of the flag.      *)
(***************************************************************************)
\* PollEnter as it would be if Poll cleared CommandPending before it called
\* the handler
PollEnterClearsFirst ==
    /\ phase = "running"
    /\ pc = "idle"
    /\ pollCalls' = 0
    /\ IF CommandPending
       THEN /\ pc' = "dispatch"
            /\ CommandPending' = FALSE
            /\ Step("PollEnter", NULL, FALSE, 0, NULL, "none", NULL)
            /\ UNCHANGED recvHist
       ELSE /\ pc' = "idle"
            /\ UNCHANGED CommandPending
            /\ Step("PollReturn", NULL, FALSE, 0, NULL, "none", NULL)
            /\ firstRecv' = NULL
            /\ recvCount' = 0
    /\ UNCHANGED <<CommandBuffer, ResponseBuffer, ResponsePending, myDeviceID,
                   phase, twiRx, postHist, constructedID, aux>>

PollEnter ==
    /\ phase = "running"
    /\ pc = "idle"
    /\ pollCalls' = 0
    /\ IF CommandPending
       THEN /\ pc' = "dispatch"
            /\ Step("PollEnter", NULL, FALSE, 0, NULL, "none", NULL)
            /\ UNCHANGED recvHist
       ELSE /\ pc' = "idle"
            /\ Step("PollReturn", NULL, FALSE, 0, NULL, "none", NULL)
            /\ firstRecv' = NULL
            /\ recvCount' = 0
    /\ UNCHANGED <<object, phase, twiRx, postHist, constructedID, aux>>

PollOnCommand ==
    /\ pc = "dispatch"
    /\ pc' = "clear"
    /\ pollCalls' = pollCalls + 1
    /\ \E layout \in PostResponseLayouts(HandlerResponse(CurImage)) :
          Store(OnCommand(CurImage, layout))
    /\ Step("OnCommand", NULL, FALSE,
            PostResponseOverrun(HandlerResponse(CurImage)), NULL, "none",
            RecordAt(CommandBuffer))
    /\ NotePosted("handler", HandlerResponse(CurImage))
    /\ awaiting' = NULL
    /\ UNCHANGED <<phase, twiRx, recvHist, constructedID, critical,
                   other>>

\* PollClear as it would be if Poll returned without clearing the flag
PollClearKeepsFlag ==
    /\ pc = "clear"
    /\ pc' = "idle"
    /\ Step("PollReturn", NULL, FALSE, 0, NULL, "none", NULL)
    /\ firstRecv' = NULL
    /\ recvCount' = 0
    /\ UNCHANGED <<object, phase, twiRx, postHist, pollCalls, constructedID,
                   aux>>

PollClear ==
    /\ pc = "clear"
    /\ pc' = "idle"
    /\ CommandPending' = FALSE
    /\ Step("PollReturn", NULL, FALSE, 0, NULL, "none", NULL)
    /\ firstRecv' = NULL
    /\ recvCount' = 0
    /\ UNCHANGED <<CommandBuffer, ResponseBuffer, ResponsePending, myDeviceID,
                   phase, twiRx, postHist, pollCalls, constructedID, aux>>

Next ==
    \/ Begin
    \/ \E r \in Responses \cup {NULL} : PostResponse(r)
    \/ GetResponse
    \/ \E f \in Frames : OnCommandReceived(f)
    \/ \E rx \in TwiReceptions : OnCommandReceivedTwi(rx, Len(rx))
    \/ PollEnter
    \/ PollOnCommand
    \/ PollClear

Spec == Init /\ [][Next]_vars

(***************************************************************************)
(* PostResponse in the steps an interrupt could separate:                  *)
(*   noInterrupts(); memcpy, byte by byte; ResponsePending = true;         *)
(*   interrupts()                                                          *)
(* called by the device's code or by the handler that Poll dispatches to.  *)
(* The interrupt handlers GetResponse and OnCommandReceived run whenever   *)
(* the interrupt-enable flag is set.                                       *)
(***************************************************************************)
\* noInterrupts as it would be if the call were left out
noInterruptsOmitted == TRUE

\* the interrupt-enable flag after noInterrupts()
noInterrupts == FALSE

\* the interrupt-enable flag after interrupts()
interrupts == TRUE

\* the i-th byte that memcpy(dest, src, n) writes
MemcpyByte(mem, off, cap, src, i, layout) ==
    IF i > cap /\ layout = "elsewhere"
    THEN mem
    ELSE [mem EXCEPT ![off + i - 1] = src[i]]

\* if (pResponse != NULL) { noInterrupts(); ...
PostResponseCall(pResponse, return) ==
    IF pResponse = NULL
    THEN /\ pc' = return
         /\ UNCHANGED critical
    ELSE /\ pc' = "copy"
         /\ interruptsOn' = noInterrupts
         /\ pPosting' = pResponse
         /\ bytesCopied' = 0
         /\ postReturn' = return

PostResponseEnter(pResponse) ==
    /\ phase = "running"
    /\ pc = "idle"
    /\ PostResponseCall(pResponse, "idle")
    /\ Step("PostResponseEnter", NULL, FALSE, 0, NULL, "none", NULL)
    /\ UNCHANGED <<object, phase, twiRx, postHist, recvHist, pollCalls,
                   constructedID, awaiting, other>>

\* OnCommand((const CommandMessage*)CommandBuffer) up to PostResponse's copy
PollOnCommandEnter ==
    /\ pc = "dispatch"
    /\ pollCalls' = pollCalls + 1
    /\ PostResponseCall(HandlerResponse(CurImage), "clear")
    /\ Step("OnCommandEnter", NULL, FALSE, 0, NULL, "none",
            RecordAt(CommandBuffer))
    /\ awaiting' = NULL
    /\ UNCHANGED <<object, phase, twiRx, postHist, recvHist, constructedID,
                   other>>

PostCopyByte ==
    /\ pc = "copy"
    /\ bytesCopied < pPosting[1]
    /\ bytesCopied' = bytesCopied + 1
    /\ \E layout \in LayoutsOf(BufferSize, bytesCopied + 1) :
          Store(MemcpyByte(CurImage, OffResponseBuffer, BufferSize, pPosting,
                           bytesCopied + 1, layout))
    /\ Step("PostCopyByte", NULL, FALSE,
            Overrun(BufferSize, bytesCopied + 1), NULL, "none", NULL)
    /\ UNCHANGED <<phase, pc, twiRx, postHist, recvHist, pollCalls,
                   constructedID, interruptsOn, pPosting, postReturn,
                   awaiting, other>>

PostSetPending ==
    /\ pc = "copy"
    /\ bytesCopied = pPosting[1]
    /\ pc' = "unmask"
    /\ ResponsePending' = TRUE
    /\ Step("PostSetPending", NULL, FALSE, 0, NULL, "none", NULL)
    /\ NotePosted("handler", pPosting)
    /\ UNCHANGED <<CommandBuffer, ResponseBuffer, CommandPending, myDeviceID,
                   phase, twiRx, recvHist, pollCalls, constructedID,
                   critical, awaiting, other>>

PostResponseLeave ==
    /\ pc = "unmask"
    /\ pc' = postReturn
    /\ interruptsOn' = interrupts
    /\ pPosting' = NULL
    /\ bytesCopied' = 0
    /\ postReturn' = "idle"
    /\ Step("PostResponseLeave", NULL, FALSE, 0, NULL, "none", NULL)
    /\ UNCHANGED <<object, phase, twiRx, postHist, recvHist, pollCalls,
                   constructedID, awaiting, other>>

NextPost ==
    \/ Begin
    \/ \E r \in Responses \cup {NULL} : PostResponseEnter(r)
    \/ PostCopyByte
    \/ PostSetPending
    \/ PostResponseLeave
    \/ GetResponse
    \/ \E f \in Frames : OnCommandReceived(f)
    \/ PollEnter
    \/ PollOnCommandEnter
    \/ PollClear

SpecPost == Init /\ [][NextPost]_vars

(***************************************************************************)
(* OnCommandReceived(TwoWire& twi, int messageLength) in the iterations of *)
(* its loops: the flush loop, and the loop of I2C_Read.  An interrupt      *)
(* handler runs to its return before the interrupted code continues.       *)
(***************************************************************************)
\* twi.read() as it would be if it left the byte in the receive buffer
TwiPeek(rx) == rx

\* the receive buffer after twi.read()
TwiRead(rx) == Tail(rx)

\* the call, up to the test of CommandPending and CommandPending = true
ReceiveEnter(rx, length) ==
    /\ phase = "running"
    /\ interruptsOn
    /\ isrPc = "none"
    /\ twiRx' = rx
    /\ readSize' = length
    /\ bytesRead' = 0
    /\ IF CommandPending
       THEN /\ isrPc' = "flush"
            /\ UNCHANGED object
       ELSE /\ isrPc' = "read"
            /\ CommandPending' = TRUE
            /\ UNCHANGED <<CommandBuffer, ResponseBuffer, ResponsePending,
                           myDeviceID>>
    /\ Step("ReceiveEnter", rx, FALSE, 0, NULL, "none", NULL)
    /\ IF rx = <<>> THEN UNCHANGED recvHist ELSE NoteReceived(rx)
    /\ UNCHANGED <<phase, pc, postHist, pollCalls, constructedID, critical,
                   awaiting, registry, bus>>

\* while (twi.available()) twi.read();
ReceiveFlushByte ==
    /\ isrPc = "flush"
    /\ twiRx # <<>>
    /\ twiRx' = TwiRead(twiRx)
    /\ Step("ReceiveFlushByte", NULL, FALSE, 0, NULL, "none", NULL)
    /\ UNCHANGED <<object, phase, pc, postHist, recvHist, pollCalls,
                   constructedID, aux>>

\* return;
ReceiveFlushReturn ==
    /\ isrPc = "flush"
    /\ twiRx = <<>>
    /\ isrPc' = "none"
    /\ Step("ReceiveReturn", NULL, FALSE, 0, NULL, "none", NULL)
    /\ UNCHANGED <<object, phase, pc, twiRx, postHist, recvHist, pollCalls,
                   constructedID, critical, awaiting, registry, bus,
                   readSize, bytesRead>>

\* bytesRead < sizeDest && twi.available()
I2C_ReadContinues == bytesRead < readSize /\ twiRx # <<>>

\* pDest[bytesRead++] = twi.read();
ReceiveReadByte ==
    /\ isrPc = "read"
    /\ I2C_ReadContinues
    /\ \E layout \in LayoutsOf(BufferSize, bytesRead + 1) :
          Store(MemcpyByte(CurImage, OffCommandBuffer, BufferSize,
                           Fill(bytesRead + 1, Head(twiRx)), bytesRead + 1,
                           layout))
    /\ bytesRead' = bytesRead + 1
    /\ twiRx' = TwiRead(twiRx)
    /\ Step("ReceiveReadByte", NULL, FALSE,
            Overrun(BufferSize, bytesRead + 1), NULL, "none", NULL)
    /\ UNCHANGED <<phase, pc, postHist, recvHist, pollCalls, constructedID,
                   critical, awaiting, registry, bus, isrPc, readSize>>

\* if (I2C_Read(...) == 0) CommandPending = false;
ReceiveReadReturn ==
    /\ isrPc = "read"
    /\ ~I2C_ReadContinues
    /\ isrPc' = "none"
    /\ CommandPending' = IF bytesRead = 0 THEN FALSE ELSE CommandPending
    /\ awaiting' = IF bytesRead = 0 THEN awaiting
                                    ELSE SubSeq(CommandBuffer, 1, bytesRead)
    /\ Step("ReceiveReturn", NULL, FALSE, 0, NULL, "none", NULL)
    /\ UNCHANGED <<CommandBuffer, ResponseBuffer, ResponsePending, myDeviceID,
                   phase, pc, twiRx, postHist, recvHist, pollCalls,
                   constructedID, critical, registry, bus, readSize,
                   bytesRead>>

\* the steps of the handler in progress
ReceiveStep ==
    \/ ReceiveFlushByte
    \/ ReceiveFlushReturn
    \/ ReceiveReadByte
    \/ ReceiveReadReturn

\* the steps of the Poll or PostResponse in progress
CooperativeStep ==
    \/ PollOnCommandEnter
    \/ PostCopyByte
    \/ PostSetPending
    \/ PostResponseLeave
    \/ PollClear

\* no interrupt handler is in progress
Uninterrupted(step) == isrPc = "none" /\ step

NextSteps ==
    \/ Uninterrupted(Begin)
    \/ \E r \in Responses \cup {NULL} : Uninterrupted(PostResponseEnter(r))
    \/ Uninterrupted(PollEnter)
    \/ Uninterrupted(PollOnCommandEnter)
    \/ Uninterrupted(PostCopyByte)
    \/ Uninterrupted(PostSetPending)
    \/ Uninterrupted(PostResponseLeave)
    \/ Uninterrupted(PollClear)
    \/ Uninterrupted(GetResponse)
    \/ \E f \in TwiReceptions \ {<<>>} : Uninterrupted(OnCommandReceived(f))
    \/ \E rx \in TwiReceptions : ReceiveEnter(rx, Len(rx))
    \/ ReceiveFlushByte
    \/ ReceiveFlushReturn
    \/ ReceiveReadByte
    \/ ReceiveReadReturn

SpecSteps == Init /\ [][NextSteps]_vars

(***************************************************************************)
(* The deferred responses: PostDeferredResponse and                        *)
(* HandleQueryResponseReady, cooperative context.                          *)
(***************************************************************************)
\* a device's response with one byte of data, its ResponseID set by the
\* handler that deferred it
DeferredPayload(responseID, data) ==
    [CommandResponseQueryID(data) EXCEPT ![3] = responseID]

DeferredResponses ==
    {DeferredPayload(3, 21), DeferredPayload(3, 22), DeferredPayload(4, 23)}

Queries == {CommandQueryResponseReady(id, 0) : id \in {3, 4}}

\* where the loop "for (i = 0; i < SIZE; i++) ... break" stops, found being
\* the indices of the elements it is looking for: at the first of them, and
\* at none (0) when there is none
FirstIndex(found) ==
    IF found = {} THEN 0
    ELSE CHOOSE i \in found : \A j \in found : i <= j

\* "auto responseItem = _deferredResponseList[i]" declares a copy of the
\* element: the assignments to responseItem's members that follow change the
\* copy, and the list is as it was when the copy goes out of scope
AutoItem(list, i, responseItem) == list

\* PostDeferredResponse, on the list
PostDeferredResponseList(list, pResponse) ==
    IF pResponse = NULL
    THEN list
    ELSE LET i == FirstIndex({k \in 1..Len(list) : ~list[k].InUse})
         IN  IF i = 0
             THEN list
             ELSE AutoItem(list, i, [InUse |-> TRUE, pResponse |-> pResponse])

PostDeferredResponse(pResponse) ==
    /\ phase = "running"
    /\ pc = "idle"
    /\ deferredResponseList'
         = PostDeferredResponseList(deferredResponseList, pResponse)
    /\ registered' = IF pResponse = NULL THEN registered
                                         ELSE registered \cup {pResponse}
    /\ Step("PostDeferredResponse", pResponse, FALSE, 0, NULL, "none", NULL)
    /\ UNCHANGED <<object, phase, pc, twiRx, postHist, recvHist, pollCalls,
                   constructedID, critical, awaiting, bus, receiving>>

\* the index of the item HandleQueryResponseReady finds for responseID
MatchingItem(list, responseID) ==
    FirstIndex({k \in 1..Len(list) :
                   list[k].InUse /\ list[k].pResponse[3] = responseID})

HandleQueryResponseReady(command) ==
    /\ phase = "running"
    /\ pc = "idle"
    /\ LET responseID == command[3]
           i == MatchingItem(deferredResponseList, responseID)
           pResponse == IF i = 0 THEN NULL
                                 ELSE deferredResponseList[i].pResponse
       IN  /\ \E layout \in PostResponseLayouts(pResponse) :
                 Store(PostResponseImage(CurImage, pResponse, layout))
           /\ deferredResponseList'
                = IF i = 0 THEN deferredResponseList
                  ELSE AutoItem(deferredResponseList, i,
                                [deferredResponseList[i]
                                    EXCEPT !.InUse = FALSE])
           /\ NotePosted("handler", pResponse)
           /\ Step("HandleQueryResponseReady", command, FALSE,
                   PostResponseOverrun(pResponse), NULL, "none", NULL)
           /\ registered' = {r \in registered : r[3] # responseID}
    /\ UNCHANGED <<phase, pc, twiRx, recvHist, pollCalls, constructedID,
                   critical, awaiting, bus, receiving>>

(***************************************************************************)
(* SendResponse(TwoWire& twi): interrupt context.  The transport calls it  *)
(* with nothing written yet for the request it answers.                    *)
(***************************************************************************)
\* SendResponse as it would be if it sent what GetResponse returns
SendResponseTakesPending ==
    /\ phase = "running"
    /\ interruptsOn
    /\ twiTx' = GetResponseResult(ResponsePending, ResponseBuffer).response
    /\ ResponsePending' = FALSE
    /\ Step("SendResponse", NULL, FALSE, 0, NULL, "none", NULL)
    /\ UNCHANGED <<CommandBuffer, ResponseBuffer, CommandPending, myDeviceID,
                   phase, pc, twiRx, postHist, recvHist, pollCalls,
                   constructedID, critical, awaiting, registry, receiving,
                   master, value, valueType, received, moved, textArg>>

\* volatile auto response = CommandResponse(CMD_RESPONSE_UNKNOWN);
\* twi.write((byte*)&response, sizeof(response));
SendResponse ==
    /\ phase = "running"
    /\ interruptsOn
    /\ twiTx' = CommandResponse(CMD_RESPONSE_UNKNOWN, 0)
    /\ Step("SendResponse", NULL, FALSE, 0, NULL, "none", NULL)
    /\ UNCHANGED <<object, phase, pc, twiRx, postHist, recvHist, pollCalls,
                   constructedID, critical, awaiting, registry, receiving,
                   master, value, valueType, received, moved, textArg>>

NextRegistry ==
    \/ Begin
    \/ \E r \in DeferredResponses \cup {NULL} : PostDeferredResponse(r)
    \/ \E q \in Queries : HandleQueryResponseReady(q)
    \/ \E r \in Responses \cup OversizeResponses \cup {NULL} : PostResponse(r)
    \/ GetResponse
    \/ SendResponse

SpecRegistry == Init /\ [][NextRegistry]_vars

(***************************************************************************)
(* Construction of the records, I2C_Write<T> and I2C_Read<T>.              *)
(***************************************************************************)
CommandCodes == 0..CMD_ECHO

ResponseCodes == CMD_RESPONSE_OK..CMD_RESPONSE_UNKNOWN

ResponseIDs == {0, 3}

Addresses == {0, 16}

\* the texts of at most n characters
RECURSIVE TextsUpTo(_)
TextsUpTo(n) ==
    IF n = 0 THEN {<<>>}
    ELSE TextsUpTo(n - 1)
         \cup {Append(t, c) : t \in {u \in TextsUpTo(n - 1) : Len(u) = n - 1},
                              c \in {104, 105}}

\* a text of n characters, all different
LongText(n) == [i \in 1..n |-> 64 + i]

\* short texts, one that leaves the last byte of a text field free, one that
\* would fill the field to its last byte, and a longer one
Texts ==
    TextsUpTo(MaxText)
    \cup {LongText(n) : n \in EchoDataSize - 1 .. EchoDataSize + 1}

\* every record a constructor makes, with the name of its type and the text
\* the constructor was given
Constructed ==
    {<<"CommandMessage", CommandMessage(c), NULL>> : c \in CommandCodes}
    \cup {<<"CommandQueryResponseReady", CommandQueryResponseReady(id, g),
             NULL>> : id \in ResponseIDs, g \in Garbage}
    \cup {<<"CommandEcho", CommandEcho(t), t>> : t \in Texts}
    \cup {<<"CommandExecute", CommandExecute(a, t), t>> :
            a \in Addresses, t \in Texts}
    \cup {<<"CommandResponse", CommandResponse(c, id), NULL>> :
            c \in ResponseCodes, id \in ResponseIDs}
    \cup {<<"CommandResponseDeferred", CommandResponseDeferred(id), NULL>> :
            id \in ResponseIDs}
    \cup {<<"CommandResponseQueryID", CommandResponseQueryID(id), NULL>> :
            id \in DeviceIDs}

listener == <<object, phase, pc, postHist, recvHist, pollCalls, constructedID,
              critical, awaiting, registry, receiving>>

Construct ==
    /\ \E c \in Constructed :
          /\ valueType' = c[1]
          /\ value' = c[2]
          /\ textArg' = c[3]
          /\ Step("ConstructRecord", c[2], FALSE, 0, NULL, "none", NULL)
    /\ twiTx' = <<>>
    /\ twiRx' = <<>>
    /\ received' = NULL
    /\ moved' = 0
    /\ UNCHANGED <<listener, master>>

\* twi.write((uint8_t*) &value, sizeof(value)); return sizeof(value);
I2C_Write ==
    /\ lastOp = "ConstructRecord"
    /\ twiTx' = twiTx \o value
    /\ moved' = Len(value)
    /\ Step("I2C_Write", value, FALSE, 0, NULL, "none", NULL)
    /\ UNCHANGED <<listener, master, twiRx, value, valueType, received,
                   textArg>>

\* the transport: the receiver gets the bytes sent, or fewer
Transfer ==
    /\ lastOp = "I2C_Write"
    /\ twiTx' = <<>>
    /\ \E n \in {Len(twiTx), Len(twiTx) - 1} : twiRx' = SubSeq(twiTx, 1, n)
    /\ Step("Transfer", NULL, FALSE, 0, NULL, "none", NULL)
    /\ UNCHANGED <<listener, master, value, valueType, received, moved,
                   textArg>>

\* I2C_ReadInto as it would be if the loop tested twi.available() alone
I2C_ReadIntoAllAvailable(dest, rx, sizeDest) ==
    [i \in 1..Len(dest) |-> IF i <= Len(rx) THEN rx[i] ELSE dest[i]]

\* the object at pDest after I2C_Read(twi, pDest, sizeDest)
I2C_ReadInto(dest, rx, sizeDest) ==
    [i \in 1..Len(dest) |->
        IF i <= I2C_ReadCount(rx, sizeDest) THEN rx[i] ELSE dest[i]]

\* I2C_Read(twi, (uint8_t*)&value, sizeof value), into an object of the
\* type that was written
I2C_Read ==
    /\ lastOp = "Transfer"
    /\ \E g \in Garbage :
          received' = I2C_ReadInto(Fill(Len(value), g), twiRx, Len(value))
    /\ moved' = I2C_ReadCount(twiRx, Len(value))
    /\ twiRx' = SubSeq(twiRx, I2C_ReadCount(twiRx, Len(value)) + 1,
                       Len(twiRx))
    /\ Step("I2C_Read", twiRx, FALSE, 0, NULL, "none", NULL)
    /\ UNCHANGED <<listener, master, value, valueType, twiTx, textArg>>

\* the sizes of the destination that I2C_Read is told
ReadSizes == {1, BufferSize}

\* I2C_Read(twi, pDest, sizeDest) into a buffer of BufferSize bytes, of
\* which lastFrame keeps the contents before the call; made when a record
\* has arrived, or when I2C_Read<T> has taken it from the transport
I2C_ReadBytes ==
    /\ lastOp \in {"Transfer", "I2C_Read"}
    /\ \E sizeDest \in ReadSizes, g \in Garbage :
          /\ readSize' = sizeDest
          /\ received' = I2C_ReadInto(Fill(BufferSize, g), twiRx, sizeDest)
          /\ moved' = I2C_ReadCount(twiRx, sizeDest)
          /\ twiRx' = SubSeq(twiRx, I2C_ReadCount(twiRx, sizeDest) + 1,
                             Len(twiRx))
          /\ Step("I2C_ReadBytes", Fill(BufferSize, g), FALSE, 0, NULL,
                  "none", NULL)
    /\ UNCHANGED <<object, phase, pc, postHist, recvHist, pollCalls,
                   constructedID, critical, awaiting, registry, isrPc,
                   bytesRead, master, value, valueType, twiTx, textArg>>

NextCodec ==
    \/ Construct
    \/ I2C_Write
    \/ Transfer
    \/ I2C_Read
    \/ I2C_ReadBytes

SpecCodec == Init /\ [][NextCodec]_vars

(***************************************************************************)
(* I2C_SendMessage and I2C_SendCommand, on the device that sends.  The     *)
(* transport decides what endTransmission returns and how many bytes the   *)
(* addressed device supplies to requestFrom.                               *)
(***************************************************************************)
\* the status codes of TwoWire::endTransmission
EndStatuses == 0..4

\* what the addressed device has to send when it is asked
Replies == {<<>>, <<CMD_RESPONSE_OK>>, CommandResponseQueryID(7)}

ResponseLengths == {0, 1, ResponseCapacity}

\* the address of the device the commands are sent to
SlaveAddress == CHOOSE a \in Addresses : a # 0

\* the bytes twi.requestFrom(address, quantity) obtains
RequestFrom(reply, quantity) == SubSeq(reply, 1, Min(quantity, Len(reply)))

\* for (i < bytesRead) if (i < responseLength) pResponse[i] = twi.read();
ReadResponse(buffer, got, responseLength) ==
    [i \in 1..Len(buffer) |->
        IF i <= Len(got) /\ i <= responseLength THEN got[i] ELSE buffer[i]]

\* the status as it would be if an empty response were taken for success
ResponseStatusAlwaysOk(count) == 0

\* statusCode = (bytesRead > 0) ? 0 : 4;
ResponseStatus(count) == IF count > 0 THEN 0 ELSE 4

\* the sending device after beginTransmission; write;
\* endTransmission(!isRequest); and, if that returned 0 and a response is
\* wanted, requestFrom and the reads
Transacted(m, address, bytes, isRequest, responseLength, endStatus, reply) ==
    LET got == RequestFrom(reply, responseLength)
        asks == (endStatus = 0 /\ isRequest)
    IN  [transmissions |-> <<[address |-> address, bytes |-> bytes,
                              sendStop |-> ~isRequest]>>,
         requests |-> IF asks
                      THEN <<[address |-> address,
                              quantity |-> responseLength]>>
                      ELSE <<>>,
         isRequest |-> isRequest,
         endStatus |-> endStatus,
         bytesRead |-> IF asks THEN Len(got) ELSE 0,
         response |-> IF asks
                      THEN ReadResponse(m.response, got, responseLength)
                      ELSE m.response,
         statusCode |-> IF asks THEN ResponseStatus(Len(got)) ELSE endStatus]

\* I2C_SendMessage(twi, address, pMessage, messageLength, pResponse,
\* responseLength), pResponse NULL or the device's response buffer
I2C_SendMessage(address, pMessage, isRequest, responseLength) ==
    /\ \E endStatus \in EndStatuses, reply \in Replies :
          master' = Transacted(master, address, pMessage, isRequest,
                               responseLength, endStatus, reply)
    /\ Step("I2C_SendMessage", pMessage, isRequest, 0, NULL, "none", NULL)
    /\ UNCHANGED <<listener, twiRx, codec>>

\* I2C_SendMessage(twi, address, pMessage, messageLength): no response is
\* asked for, and the transmission ends with a stop
I2C_SendMessageOnly(address, pMessage) ==
    /\ \E endStatus \in EndStatuses :
          master' = Transacted(master, address, pMessage, FALSE, 0,
                               endStatus, NULL)
    /\ Step("I2C_SendMessageOnly", pMessage, FALSE, 0, NULL, "none", NULL)
    /\ UNCHANGED <<listener, twiRx, codec>>

\* twi.write(cmd); twi.write(pCmdData, (pCmdData == NULL) ? 0 : cmdLength);
I2C_SendCommand(address, cmd, pCmdData, isRequest, responseLength) ==
    /\ \E endStatus \in EndStatuses, reply \in Replies :
          master' = Transacted(master, address, <<cmd>> \o pCmdData,
                               isRequest, responseLength, endStatus, reply)
    /\ Step("I2C_SendCommand", <<cmd>> \o pCmdData, isRequest, 0, NULL,
            "none", NULL)
    /\ UNCHANGED <<listener, twiRx, codec>>

NextSend ==
    \/ \E isRequest \in BOOLEAN, n \in ResponseLengths :
          I2C_SendMessage(SlaveAddress, CommandMessage(CMD_QUERY_ID),
                          isRequest, n)
    \/ \E f \in TwiReceptions \ {<<>>} :
          I2C_SendMessageOnly(SlaveAddress, f)
    \/ \E data \in {NULL, Text}, isRequest \in BOOLEAN,
          n \in ResponseLengths :
          I2C_SendCommand(SlaveAddress, CMD_ECHO, data, isRequest, n)

SpecSend == Init /\ [][NextSend]_vars

(***************************************************************************)
(* Properties                                                              *)
(***************************************************************************)
\* the response a GetResponse made in the state (pending, buffer) returns
NextResponse(pending, buffer) == GetResponseResult(pending, buffer).response

\* C1: OnCommandReceived(pCommand) entered with CommandPending true rejects
\* the command: CommandPending stays true and CommandBuffer keeps its bytes;
\* when IsResponseExpected holds a response is pending afterwards and the next
\* GetResponse returns {Length 3, BUSY, ID 0}; when it does not hold,
\* ResponsePending and ResponseBuffer are as before.
C1_RejectedWhilePending ==
    [][(lastOp' \in {"ReceiveRejected", "ReceiveAccepted"} /\ CommandPending)
        => /\ lastOp' = "ReceiveRejected"
           /\ CommandPending'
           /\ CommandBuffer' = CommandBuffer
           /\ IF lastExpected'
              THEN /\ ResponsePending'
                   /\ NextResponse(ResponsePending', ResponseBuffer')
                        = <<3, CMD_RESPONSE_BUSY, 0>>
              ELSE /\ ResponsePending' = ResponsePending
                   /\ ResponseBuffer' = ResponseBuffer]_vars

\* a command that expects a response was rejected while another was pending
C1_Witness ==
    /\ lastOp = "ReceiveRejected"
    /\ lastExpected
    /\ CommandPending
    /\ RecordAt(CommandBuffer) # lastFrame
    /\ NextResponse(ResponsePending, ResponseBuffer)[2] = CMD_RESPONSE_BUSY

\* C2: a GetResponse made when no PostResponse has occurred since the previous
\* GetResponse, or since Begin, returns the static NOT_READY response and not
\* the contents of ResponseBuffer.
C2_NotReadyUnlessPosted ==
    [][(lastOp' = "GetResponse" /\ postedBy = "none")
        => (retSrc' = "static" /\ ret' = responseNotReady)]_vars

\* C3: a GetResponse made while a response is pending returns the response
\* most recently given to PostResponse, byte for byte, and leaves
\* ResponsePending false.
C3_ReturnsLastPosted ==
    [][(lastOp' = "GetResponse" /\ ResponsePending)
        => /\ postedBy # "none"
           /\ ret' = lastPosted
           /\ ~ResponsePending']_vars

\* C4: a Poll that finds CommandPending true calls OnCommand once, on the
\* record in CommandBuffer, and returns with CommandPending false; a Poll that
\* finds it false calls no handler and changes none of CommandPending,
\* CommandBuffer, ResponsePending, ResponseBuffer.
C4_PollDispatchesOnce ==
    [][/\ (lastOp' = "PollEnter" /\ pc = "idle") => CommandPending
       /\ (lastOp' = "OnCommand")
            => /\ pollCalls' = 1
               /\ handlerArg' = RecordAt(CommandBuffer)
       /\ (lastOp' = "PollReturn" /\ pc = "clear")
            => /\ ~CommandPending'
               /\ pollCalls' = 1
       /\ (lastOp' = "PollReturn" /\ pc = "idle")
            => /\ ~CommandPending
               /\ pollCalls' = 0
               /\ UNCHANGED <<CommandPending, CommandBuffer, ResponsePending,
                              ResponseBuffer>>]_vars

\* a Poll that dispatched a command has returned
C4_Witness ==
    /\ lastOp = "PollReturn"
    /\ pollCalls = 1
    /\ ~CommandPending
    /\ firstRecv = NULL

\* C5: when two or more commands were received since the last Poll returned,
\* the command the next Poll hands to the handler is the first of them, with
\* the bytes it arrived with (those of them that CommandBuffer has room for).
C5_FirstCommandDispatched ==
    [][(lastOp' = "OnCommand" /\ recvCount = 2)
        => handlerArg' = SubSeq(firstRecv, 1, Min(Len(firstRecv), BufferSize))
      ]_vars

\* C6: dispatching a CMD_QUERY_ID command on a listener constructed with
\* device ID d leaves a response pending, and the next GetResponse returns
\* {Length 4, OK, ResponseID 0, ID d}.
C6_QueryIDAnswer ==
    [][(lastOp' = "OnCommand" /\ CommandBuffer[2] = CMD_QUERY_ID)
        => /\ ResponsePending'
           /\ NextResponse(ResponsePending', ResponseBuffer')
                = <<4, CMD_RESPONSE_OK, 0, constructedID>>]_vars

\* C7: a response that a handler posted and the master has not yet retrieved
\* stays the response the next GetResponse returns when a later command is
\* rejected: the listener's own BUSY answer does not replace it.
C7_ComputedResponseKept ==
    [][(/\ lastOp' = "ReceiveRejected"
        /\ postedBy = "handler"
        /\ ResponsePending
        /\ NextResponse(ResponsePending, ResponseBuffer) = lastPosted)
        => NextResponse(ResponsePending', ResponseBuffer') = lastPosted]_vars

\* C8: when PostResponse was called twice or more since the last GetResponse,
\* the next GetResponse returns the response given to the last of these calls
\* and nothing of an earlier one, and a GetResponse that directly follows a
\* GetResponse returns NOT_READY.
C8_LastWriteWins ==
    [][/\ (lastOp' = "GetResponse" /\ postCount = 2) => ret' = lastPosted
       /\ (lastOp' = "GetResponse" /\ lastOp = "GetResponse")
            => ret' = responseNotReady]_vars

\* C9: OnCommandReceived of a frame whose Length exceeds the capacity of
\* CommandBuffer writes no byte outside CommandBuffer, leaves CommandBuffer as
\* it was and does not set CommandPending.
C9_OversizeRejected ==
    [][(/\ lastOp' \in {"ReceiveRejected", "ReceiveAccepted"}
        /\ lastFrame'[1] > BufferSize)
        => /\ overrun' = 0
           /\ CommandBuffer' = CommandBuffer
           /\ CommandPending' = CommandPending]_vars

\* C10: a frame received while no command is pending is in CommandBuffer
\* afterwards, the first Length bytes of CommandBuffer being the frame's, and
\* CommandPending is true.
C10_FrameCopied ==
    [][(/\ lastOp' \in {"ReceiveRejected", "ReceiveAccepted",
                        "TwiReceiveFlushed", "TwiReceiveAccepted"}
        /\ ~CommandPending)
        => /\ CommandPending'
           /\ lastFrame'[1] <= Len(CommandBuffer')
           /\ SubSeq(CommandBuffer', 1, lastFrame'[1]) = lastFrame']_vars

\* C11: dispatching a command whose CommandCode is not CMD_QUERY_ID posts no
\* response: ResponsePending and ResponseBuffer are as before the dispatch,
\* and so is the response a following GetResponse returns.
C11_UnrecognizedPostsNothing ==
    [][(lastOp' = "OnCommand" /\ CommandBuffer[2] # CMD_QUERY_ID)
        => /\ ResponsePending' = ResponsePending
           /\ ResponseBuffer' = ResponseBuffer
           /\ NextResponse(ResponsePending', ResponseBuffer')
                = NextResponse(ResponsePending, ResponseBuffer)]_vars

\* an echo command was dispatched while an earlier response was still pending
C11_Witness ==
    /\ lastOp = "OnCommand"
    /\ handlerArg = CommandEcho(Text)
    /\ ResponsePending
    /\ NextResponse(ResponsePending, ResponseBuffer) = lastPosted

\* C12: PostResponse copies the response and sets ResponsePending with
\* interrupts masked: a GetResponse made in the interrupt context never finds
\* ResponsePending true while a PostResponse has written some but not all of
\* the bytes of its response to ResponseBuffer.
C12_PostIsCritical ==
    [][(lastOp' = "GetResponse" /\ ResponsePending)
        => ~(/\ pPosting # NULL
             /\ bytesCopied > 0
             /\ bytesCopied < pPosting[1])]_vars

\* PostResponse is in the middle of its copy, over a response that is still
\* pending, with interrupts masked
C12_Witness ==
    /\ pc = "copy"
    /\ bytesCopied > 0
    /\ bytesCopied < pPosting[1]
    /\ ResponsePending
    /\ ~interruptsOn
    /\ RecordAt(ResponseBuffer) # lastPosted

\* C13: every command that Receive accepts is handed to the handler exactly
\* once, by the first Poll that runs after it was accepted: accepting a
\* command sets CommandPending and replaces no command that still awaits its
\* dispatch; a dispatch hands over the command that was accepted and not yet
\* dispatched; and when a Poll returns no accepted command is left waiting.
C13_DispatchedExactlyOnce ==
    [][/\ (lastOp' \in {"ReceiveAccepted", "TwiReceiveAccepted"})
            => (awaiting = NULL /\ CommandPending')
       /\ (lastOp' = "OnCommand")
            => /\ awaiting # NULL
               /\ handlerArg' = SubSeq(awaiting, 1,
                                       Min(Len(awaiting), BufferSize))
       /\ (lastOp' = "PollReturn") => awaiting' = NULL]_vars

\* the items of the list that are in use
InUse(list) == {i \in 1..Len(list) : list[i].InUse}

\* C14: a response registered with PostDeferredResponse under ResponseID i
\* is delivered exactly once: the first CMD_QUERY_RESPONSE carrying i after
\* the registration posts that response and clears the item that held it, and
\* a later query carrying i does not resolve to it again.
C14_DeferredDeliveredOnce ==
    [][(/\ lastOp' = "HandleQueryResponseReady"
        /\ \E r \in registered : r[3] = lastFrame'[3])
        => /\ ResponsePending'
           /\ NextResponse(ResponsePending', ResponseBuffer') \in registered
           /\ NextResponse(ResponsePending', ResponseBuffer')[3]
                = lastFrame'[3]
           /\ \A i \in InUse(deferredResponseList') :
                 deferredResponseList'[i].pResponse
                   # NextResponse(ResponsePending', ResponseBuffer')]_vars

\* C15: a CMD_QUERY_RESPONSE whose ResponseID matches no item in use is
\* answered with ERROR or UNKNOWN: that is the ResponseCode of the response
\* the next GetResponse returns.
C15_UnknownIdAnswered ==
    [][(/\ lastOp' = "HandleQueryResponseReady"
        /\ MatchingItem(deferredResponseList, lastFrame'[3]) = 0)
        => NextResponse(ResponsePending', ResponseBuffer')[2]
             \in {CMD_RESPONSE_ERROR, CMD_RESPONSE_UNKNOWN}]_vars

\* C16: a registration made while fewer than DEFERRED_RESPONSE_LIST_SIZE
\* items are in use takes an item that was free, which afterwards is in use
\* and refers to the response, the other items staying as they were (so that
\* DEFERRED_RESPONSE_LIST_SIZE registrations from the empty list leave every
\* item in use); a registration made while all items are in use changes no
\* item.
C16_RegistrationsFillTheList ==
    [][(lastOp' = "PostDeferredResponse" /\ lastFrame' # NULL)
        => IF Cardinality(InUse(deferredResponseList))
                < DEFERRED_RESPONSE_LIST_SIZE
           THEN \E i \in 1..DEFERRED_RESPONSE_LIST_SIZE :
                   /\ ~deferredResponseList[i].InUse
                   /\ deferredResponseList'
                        = [deferredResponseList EXCEPT
                             ![i] = [InUse |-> TRUE, pResponse |-> lastFrame']]
           ELSE deferredResponseList' = deferredResponseList]_vars

\* C18: PostResponse writes no byte outside ResponseBuffer, whatever the
\* Length of the response it is given: the members next to ResponseBuffer are
\* as they were before the call.
C18_PostStaysInBuffer ==
    [][(lastOp' = "PostResponse")
        => /\ overrun' = 0
           /\ CommandBuffer' = CommandBuffer
           /\ CommandPending' = CommandPending
           /\ myDeviceID' = myDeviceID]_vars

\* C19: every constructor stamps Length with the size of its own type,
\* whatever its arguments: CommandMessage 2, CommandQueryResponseReady 4,
\* CommandEcho 29, CommandExecute 30, CommandResponse 3,
\* CommandResponseDeferred 3, CommandResponseQueryID 4; the value a derived
\* constructor stamps replaces the base's, and none exceeds the 32 bytes of
\* the buffers.
C19_LengthIsOwnSize ==
    (lastOp = "ConstructRecord")
        => /\ value[1] = CASE valueType = "CommandMessage" -> 2
                            [] valueType = "CommandQueryResponseReady" -> 4
                            [] valueType = "CommandEcho" -> 29
                            [] valueType = "CommandExecute" -> 30
                            [] valueType = "CommandResponse" -> 3
                            [] valueType = "CommandResponseDeferred" -> 3
                            [] valueType = "CommandResponseQueryID" -> 4
           /\ value[1] = Len(value)
           /\ value[1] <= BufferSize

\* a CommandExecute was constructed from a text longer than its field
C19_Witness ==
    /\ lastOp = "ConstructRecord"
    /\ valueType = "CommandExecute"
    /\ value[1] = 30
    /\ value[29] # 0
    /\ value[30] = 0

\* C20: I2C_Write of a record moves the bytes of its type to the transport
\* and returns their number; an I2C_Read into an object of the same type,
\* made when all these bytes are available, returns the same number and
\* leaves the object equal to the record written, field for field.
C20_RoundTrip ==
    [][/\ (lastOp' = "I2C_Write")
            => (moved' = Len(value) /\ twiTx' = twiTx \o value)
       /\ (lastOp' = "I2C_Read" /\ Len(twiRx) >= Len(value))
            => /\ moved' = Len(value)
               /\ received' = value
               /\ twiRx' = <<>>]_vars

\* a CommandEcho carrying a text came back from the wire as it was written
C20_Witness ==
    /\ lastOp = "I2C_Read"
    /\ valueType = "CommandEcho"
    /\ moved = 29
    /\ received = value
    /\ received[3] # 0

\* the text field of a CommandEcho or CommandExecute record
TextField(type, record) ==
    IF type = "CommandEcho"
    THEN SubSeq(record, 3, 2 + EchoDataSize)
    ELSE SubSeq(record, 4, 3 + CommandLineSize)

\* C21: for every text s, CommandExecute and CommandEcho store the first
\* min(len(s), 26) bytes of s in their 27-byte text field, every other
\* byte of the field is 0, and the last byte of the field is 0.
C21_TextTruncated ==
    (lastOp = "ConstructRecord" /\ valueType \in {"CommandEcho", "CommandExecute"})
        => LET field == TextField(valueType, value)
               n == Min(Len(textArg), 26)
           IN  /\ Len(field) = 27
               /\ SubSeq(field, 1, n) = SubSeq(textArg, 1, n)
               /\ \A i \in n + 1 .. 27 : field[i] = 0
               /\ field[27] = 0

\* a CommandEcho was constructed from a text of 28 characters
C21_Witness ==
    /\ lastOp = "ConstructRecord"
    /\ valueType = "CommandEcho"
    /\ Len(textArg) = 28
    /\ value[28] = textArg[26]
    /\ value[29] = 0

\* the largest value of the byte Length
MaxLength == 255

\* steps left to the return of the handler in progress, at most
ReceiveMeasure ==
    CASE isrPc = "none" -> 0
      [] isrPc = "flush" -> Len(twiRx) + 1
      [] isrPc = "read" -> Min(readSize - bytesRead, Len(twiRx)) + 1

\* steps left from the return of PostResponse to the return to the main loop
ReturnMeasure == IF postReturn = "clear" THEN 1 ELSE 0

\* steps left to the return of the Poll or PostResponse in progress, at most
CooperativeMeasure ==
    CASE pc = "idle" -> 0
      [] pc = "clear" -> 1
      [] pc = "unmask" -> 1 + ReturnMeasure
      [] pc = "copy" -> (pPosting[1] - bytesCopied) + 2 + ReturnMeasure
      [] pc = "dispatch" -> MaxLength + 4

CooperativeOps ==
    {"OnCommandEnter", "PostCopyByte", "PostSetPending", "PostResponseLeave",
     "PollReturn"}

\* C22: the receive handler, GetResponse, PostResponse and Poll return after
\* finitely many steps of their own, and wait for nothing another context
\* does.  In every state where one of them is in progress a step of it is
\* enabled (when the processor runs its context); every step of it lowers a
\* natural-numbered measure of the steps left, down to 0 at its return; no
\* step of the other context raises that measure; GetResponse and the
\* rejection of a command with BUSY are single steps.
C22_OperationsTerminate ==
    /\ [](/\ (isrPc # "none") => ENABLED ReceiveStep
          /\ (isrPc = "none" /\ pc # "idle") => ENABLED CooperativeStep
          /\ (isrPc = "none") = (ReceiveMeasure = 0)
          /\ (pc = "idle") = (CooperativeMeasure = 0))
    /\ [][/\ (isrPc # "none") => ReceiveMeasure' < ReceiveMeasure
          /\ (pc # "idle" /\ lastOp' \in CooperativeOps)
                => CooperativeMeasure' < CooperativeMeasure
          /\ (pc # "idle" /\ lastOp' \notin CooperativeOps)
                => CooperativeMeasure' <= CooperativeMeasure
          /\ (lastOp' \in {"GetResponse", "ReceiveRejected"})
                => (isrPc' = "none" /\ pc' = pc)]_vars

\* the flush loop has emptied the receive buffer, in a handler that
\* interrupted Poll before its call of OnCommand
C22_Witness ==
    /\ isrPc = "flush"
    /\ twiRx = <<>>
    /\ lastOp = "ReceiveFlushByte"
    /\ pc = "dispatch"

SendOps == {"I2C_SendMessage", "I2C_SendMessageOnly", "I2C_SendCommand"}

\* C23: I2C_SendMessage and I2C_SendCommand make one transmission and at
\* most one request.  A non-zero status of endTransmission is returned as it
\* is, with no request made and the response buffer as it was; when a
\* response is wanted and endTransmission returned 0 the result is 0 if at
\* least one response byte was received and 4 if none was; when no response
\* is wanted the result is the status of endTransmission.
C23_StatusSurfaced ==
    [][(lastOp' \in SendOps)
          => /\ Len(master'.transmissions) = 1
             /\ Len(master'.requests) <= 1
             /\ (master'.endStatus # 0)
                   => /\ master'.statusCode = master'.endStatus
                      /\ master'.requests = <<>>
                      /\ master'.response = master.response
             /\ (master'.isRequest /\ master'.endStatus = 0)
                   => /\ Len(master'.requests) = 1
                      /\ master'.statusCode
                            = IF master'.bytesRead > 0 THEN 0 ELSE 4
             /\ (~master'.isRequest)
                   => /\ master'.statusCode = master'.endStatus
                      /\ master'.requests = <<>>
                      /\ master'.response = master.response]_vars

\* I2C_SendCommand asked for a response after a transmission that
\* succeeded, received no byte and returned 4
C23_Witness ==
    /\ lastOp = "I2C_SendCommand"
    /\ master.isRequest
    /\ master.endStatus = 0
    /\ Len(master.requests) = 1
    /\ master.bytesRead = 0
    /\ master.statusCode = 4

\* C24: I2C_Read(twi, pDest, sizeDest) returns n, the smaller of sizeDest
\* and the number of bytes available; pDest[0..n-1] are the first n
\* available bytes in their order; every other byte of the destination, at
\* and beyond sizeDest in particular, is as it was; the bytes after the
\* first n stay in the transport.
C24_ReadBounded ==
    [][(lastOp' = "I2C_ReadBytes")
          => LET n == IF readSize' < Len(twiRx) THEN readSize'
                                               ELSE Len(twiRx)
             IN  /\ moved' = n
                 /\ Len(received') = Len(lastFrame')
                 /\ \A i \in 1..Len(received') :
                       received'[i] = IF i <= n THEN twiRx[i]
                                                ELSE lastFrame'[i]
                 /\ twiRx' = SubSeq(twiRx, n + 1, Len(twiRx))]_vars

\* one byte of a CommandEcho was read, the others stayed in the transport
C24_Witness ==
    /\ lastOp = "I2C_ReadBytes"
    /\ readSize = 1
    /\ moved = 1
    /\ received[1] = 29
    /\ received[2] = lastFrame[2]
    /\ Len(twiRx) >= 27
    /\ twiRx[1] = CMD_ECHO

ReceiveOps ==
    {"ReceiveAccepted", "ReceiveRejected", "TwiReceiveAccepted",
     "TwiReceiveFlushed", "TwiReceiveEmpty"}

\* C25: a command received after Poll has found CommandPending set and
\* before Poll has cleared it, so before, during or right after the call
\* of the handler, is rejected: CommandPending is still set, and
\* CommandBuffer, which the handler reads, is left as it was.
C25_ReceiveDuringPollRejected ==
    [][(pc # "idle" /\ lastOp' \in ReceiveOps)
          => /\ CommandPending
             /\ lastOp' \in {"ReceiveRejected", "TwiReceiveFlushed"}
             /\ CommandBuffer' = CommandBuffer
             /\ CommandPending']_vars

\* a frame was rejected between Poll's test of CommandPending and its call
\* of the handler
C25_Witness ==
    /\ pc = "dispatch"
    /\ lastOp = "ReceiveRejected"
    /\ lastFrame = CommandEcho(Text)
    /\ RecordAt(CommandBuffer) = CommandMessage(CMD_QUERY_ID)

\* C26: the command state and the response state do not touch each other.
\* GetResponse leaves CommandPending and CommandBuffer as they were; a
\* command that is accepted, or rejected with no response expected, leaves
\* ResponsePending and ResponseBuffer as they were; PostResponse leaves
\* CommandPending and CommandBuffer as they were.
C26_StateMachinesIndependent ==
    [][/\ (lastOp' \in {"GetResponse", "PostResponse"})
             => /\ CommandPending' = CommandPending
                /\ CommandBuffer' = CommandBuffer
       /\ (\/ lastOp' \in {"ReceiveAccepted", "TwiReceiveAccepted"}
           \/ (lastOp' = "ReceiveRejected" /\ ~lastExpected'))
             => /\ ResponsePending' = ResponsePending
                /\ ResponseBuffer' = ResponseBuffer]_vars

\* C27: Begin leaves CommandPending and ResponsePending false, whatever they
\* were; a GetResponse made right after Begin returns NOT_READY, and a Poll
\* made right after Begin returns without calling the handler, also when a
\* command or a response was pending before Begin.
C27_BeginResets ==
    [][/\ (lastOp' = "Begin") => (~CommandPending' /\ ~ResponsePending')
       /\ (lastOp = "Begin" /\ lastOp' = "GetResponse")
             => (ret' = responseNotReady /\ retSrc' = "static")
       /\ (lastOp = "Begin" /\ lastOp' \in {"PollEnter", "PollReturn"})
             => (lastOp' = "PollReturn" /\ pc' = "idle" /\ pollCalls' = 0)
      ]_vars

\* Begin was called with a command and a response pending
C27_Witness ==
    /\ lastOp = "Begin"
    /\ handlerArg = CommandMessage(CMD_QUERY_ID)
    /\ ret = CommandResponseDeferred(3)
    /\ ~CommandPending
    /\ ~ResponsePending

TwiReceiveOps == {"TwiReceiveAccepted", "TwiReceiveFlushed", "TwiReceiveEmpty"}

\* C28: OnCommandReceived(twi, messageLength) called while a command is
\* pending reads every byte of the reception out of the transport and leaves
\* CommandBuffer and CommandPending as they were; called while none is
\* pending with a reception of no bytes, it returns with CommandPending
\* false and no command waiting for a dispatch.
C28_FlushedOrEmpty ==
    [][(lastOp' \in TwiReceiveOps)
          => /\ CommandPending
                   => /\ lastOp' = "TwiReceiveFlushed"
                      /\ twiRx' = <<>>
                      /\ CommandBuffer' = CommandBuffer
                      /\ CommandPending' = CommandPending
                      /\ awaiting' = awaiting
             /\ (~CommandPending /\ lastFrame' = <<>>)
                   => /\ lastOp' = "TwiReceiveEmpty"
                      /\ ~CommandPending'
                      /\ CommandBuffer' = CommandBuffer
                      /\ awaiting' = awaiting]_vars

\* a CommandEcho arrived while a query was pending and was flushed
C28_Witness ==
    /\ lastOp = "TwiReceiveFlushed"
    /\ lastFrame = CommandEcho(Text)
    /\ twiRx = <<>>
    /\ CommandPending
    /\ RecordAt(CommandBuffer) = CommandMessage(CMD_QUERY_ID)

\* the responses the list holds for a later query
Held(list) == {list[k].pResponse : k \in InUse(list)}

\* the entries of the list that a step changes
Changed(list, after) == {k \in 1..Len(list) : after[k] # list[k]}

\* C29: HandleQueryResponseReady for the ID i clears one entry, whose
\* response has the ID i, and no other: every other entry keeps its InUse
\* flag and its response.  So a response registered while the list had room
\* is resolved by the query that follows if the query carries its ID, and
\* is still held for its own query if the query carries another ID.
C29_ResolvedIndependently ==
    [][(lastOp' = "HandleQueryResponseReady")
          => /\ Cardinality(Changed(deferredResponseList,
                                    deferredResponseList')) <= 1
             /\ \A k \in Changed(deferredResponseList, deferredResponseList') :
                   /\ deferredResponseList[k].InUse
                   /\ deferredResponseList[k].pResponse[3] = lastFrame'[3]
                   /\ ~deferredResponseList'[k].InUse
             /\ (/\ lastOp = "PostDeferredResponse"
                 /\ lastFrame # NULL
                 /\ InUse(deferredResponseList)
                       # 1..DEFERRED_RESPONSE_LIST_SIZE)
                   => IF lastFrame[3] = lastFrame'[3]
                      THEN Changed(deferredResponseList,
                                   deferredResponseList') # {}
                      ELSE lastFrame \in Held(deferredResponseList')]_vars

\* C30: SendResponse writes three bytes to the transport, a response of
\* Length 3 with ResponseCode UNKNOWN, whatever the state of the listener,
\* and leaves ResponsePending and ResponseBuffer as they were.
C30_SendsUnknown ==
    [][(lastOp' = "SendResponse")
          => /\ Len(twiTx') = 3
             /\ twiTx'[1] = 3
             /\ twiTx'[2] = CMD_RESPONSE_UNKNOWN
             /\ ResponsePending' = ResponsePending
             /\ ResponseBuffer' = ResponseBuffer
             /\ <<CommandPending', CommandBuffer'>>
                   = <<CommandPending, CommandBuffer>>]_vars

\* SendResponse was called with a posted response pending
C30_Witness ==
    /\ lastOp = "SendResponse"
    /\ ResponsePending
    /\ RecordAt(ResponseBuffer) = CommandResponseQueryID(9)
    /\ postCount = 1
    /\ twiTx[2] = CMD_RESPONSE_UNKNOWN

=============================================================================
